---- MODULE Spec2Model ----
(***************************************************************************)
(* Chat-Genius-2: real-time channel notifications and the server routes.   *)
(*                                                                         *)
(*   - the client hook useWebSocket (client/src/hooks/useWebSocket.ts,     *)
(*     the version with reconnection, lines 159-263);                      *)
(*   - the server's broadcast registry register / unregister / broadcast   *)
(*     and the channel-creating route, which are described by the          *)
(*     specification only (server/websocket is not among the sources);     *)
(*   - the sockets between them: one FIFO of frames per connection;        *)
(*   - the channel list of a page: the Redux channel slice and the         *)
(*     ChannelList component's loading effect;                             *)
(*   - the routes /auth/login, /auth/refresh, /auth/logout and their JWTs; *)
(*   - the pin routes POST and DELETE /messages/:messageId/pin, each       *)
(*     handler a sequence of awaited database statements;                  *)
(*   - the routes POST /auth/register and POST /workspaces, likewise.      *)
(*                                                                         *)
(* A connection has no identity of its own in the code beyond the two      *)
(* references the hook keeps (wsRef, reconnectTimeoutRef), so the sockets  *)
(* are kept as a multiset and the referenced one is marked.                *)
(***************************************************************************)
EXTENDS Integers, Sequences, FiniteSets, Bags, TLC

(* ------------------------------ bounds -------------------------------- *)
\* sockets alive at the same time (not yet closed at both ends)
MaxConns == 2
\* channels ever created through POST /channels
MaxChannels == 2

Clients == {1}
Workspaces == {1, 2}
\* values of the hook's workspaceId prop; 0 is the invalid (falsy) one
WorkspaceIds == {0} \cup Workspaces
ChannelIds == 1..MaxChannels

\* useWebSocket.ts:174
maxReconnectAttempts == 5

VARIABLES
    hook,       \* per client: the hook instance (props, state, refs, timers)
    socks,      \* the multiset of sockets that are not closed at both ends
    channels,   \* server: created channels, index = channelId, value = workspaceId
    responses,  \* status codes answered by POST /channels, in order
    delivered,  \* per client and channel: onChannelEvent calls for it (history)
    history     \* per client: the close events since the last successful open

wsVars == <<hook, socks, channels, responses, delivered, history>>

\* The channel list of one browser tab (the Redux channel slice and the
\* ChannelList component) and the server's channels it is fetched from.
VARIABLES
    channelState,     \* the slice: channels, currentChannel, loading, error, showArchived
    currentWorkspace, \* the workspace slice's currentWorkspace.workspaceId, 0 for none
    serverChannels,   \* server: created channels, index = channelId, value = workspaceId
    fetches,          \* fetchChannels thunks in flight
    wsEvents,         \* CHANNEL_CREATED events on their way to onChannelEvent
    handled           \* channels of the current workspace whose event was handled (history)

chVars == <<channelState, currentWorkspace, serverChannels, fetches, wsEvents, handled>>

\* The token routes of /auth.
VARIABLES
    now,          \* the clock, in hours
    issued,       \* the tokens signed so far
    loggedOut,    \* refresh tokens issued to a user before a logout of theirs that answered 200 (history)
    lastRefresh   \* the last POST /auth/refresh: its token, its answer

authVars == <<now, issued, loggedOut, lastRefresh>>

\* The pin routes of /messages and the pinnedMessages table.
VARIABLES
    pins,        \* the rows of pinnedMessages
    pinSeq,      \* the rows ever inserted: the last pinnedId given
    pinReqs,     \* the requests to the pin routes, running and answered
    uniquePins   \* the table refuses a second row for a (messageId, workspaceId)

pinVars == <<pins, pinSeq, pinReqs, uniquePins>>

\* The routes POST /auth/register and POST /workspaces and their tables.
VARIABLES
    users,              \* the rows of users
    workspaces,         \* the rows of workspaces
    workspaceChannels,  \* the rows of channels
    userWorkspaces,     \* the rows of userWorkspaces
    accReqs,            \* the requests to the two routes, running and answered
    uniqueEmail         \* the users table refuses a second row for an email

accVars == <<users, workspaces, workspaceChannels, userWorkspaces, accReqs, uniqueEmail>>

notWs == <<chVars, authVars, pinVars, accVars>>
notCh == <<wsVars, authVars, pinVars, accVars>>
notAuth == <<wsVars, chVars, pinVars, accVars>>
notPin == <<wsVars, chVars, authVars, accVars>>
notAcc == <<wsVars, chVars, authVars, pinVars>>
vars == <<wsVars, chVars, authVars, pinVars, accVars>>

Min(a, b) == IF a < b THEN a ELSE b

Socks == BagToSet(socks)
Put(B, s) == B (+) SetToBag({s})
Take(B, s) == B (-) SetToBag({s})
\* f maps the sockets of B, one-to-one
MapBag(B, f) ==
    LET S == BagToSet(B)
        T == {f[s] : s \in S}
    IN [t \in T |-> B[CHOOSE s \in S : f[s] = t]]

(* --------------------------- the client hook --------------------------- *)

\* Each definition named X_Y below is X changed the way a slip in the code
\* would change it; the properties are checked to tell them apart.

backoffTime_NoCap(n) == 1000 * (2 ^ n)

\* onclose: Math.min(1000 * Math.pow(2, reconnectAttempts.current), 10000)
backoffTime(n) == Min(1000 * (2 ^ n), 10000)

ShouldReconnect_OffByOne(n) == n <= maxReconnectAttempts

\* onclose: if (reconnectAttempts.current < maxReconnectAttempts)
ShouldReconnect(n) == n < maxReconnectAttempts

ChannelEventTypes_NoCreated == {"CHANNEL_UPDATED", "CHANNEL_ARCHIVED"}

\* onmessage: ["CHANNEL_CREATED", "CHANNEL_UPDATED", "CHANNEL_ARCHIVED"]
ChannelEventTypes == {"CHANNEL_CREATED", "CHANNEL_UPDATED", "CHANNEL_ARCHIVED"}

onmessage_Reordering(recv, data) ==
    IF data.type \in ChannelEventTypes THEN <<data>> \o recv ELSE recv

\* ws.onmessage: the parsed frame is handed to onChannelEvent when its type is
\* a channel event; recv is the sequence of onChannelEvent calls so far.
onmessage(recv, data) ==
    IF data.type \in ChannelEventTypes THEN Append(recv, data) ELSE recv

\* new WebSocket(`.../ws?workspaceId=${workspaceId}`) with the handlers of the
\* connect closure that created it: ws, the workspaceId it captured (the
\* isConnecting it captured is false, or it would have returned early).
\* ref: wsRef.current is this socket. state is the browser's readyState, with
\* CLOSING until the close event is dispatched; srv is the server's end of
\* the connection and reg the workspaces whose set it is a member of;
\* inflight are the frames sent by the server and not yet handled, received
\* the onChannelEvent calls. History, per connection: the channels created in
\* its workspace while the server held it open (during), while both ends were
\* open (duringOpen), and while it was registered but closed (dropped).
NewSock(c, clWs) ==
    [ client |-> c, ws |-> clWs, ref |-> TRUE,
      state |-> "CONNECTING", srv |-> "NONE", reg |-> {},
      inflight |-> <<>>, received |-> <<>>,
      during |-> {}, duringOpen |-> {}, dropped |-> {} ]

\* A socket closed at both ends is dropped from the model.
Dead(s) == s.state = "CLOSED" /\ s.srv \in {"NONE", "GONE"}

\* wsRef.current of client c, as the set of sockets it points to (none or one)
wsRef(B, c) == {s \in BagToSet(B) : s.client = c /\ s.ref}

\* ws.close() on wsRef.current, then wsRef.current = null: a CONNECTING or
\* OPEN socket starts closing; its close event is dispatched later, as a task
\* of its own.
CloseRef(B, c) ==
    MapBag(B, [s \in BagToSet(B) |->
        IF s.client = c /\ s.ref
        THEN [s EXCEPT !.ref = FALSE,
                       !.state = IF @ \in {"CONNECTING", "OPEN"}
                                 THEN "CLOSING" ELSE @]
        ELSE s])

\* wsRef.current = null
ClearRef(B, c) ==
    MapBag(B, [s \in BagToSet(B) |->
        IF s.client = c /\ s.ref THEN [s EXCEPT !.ref = FALSE] ELSE s])

\* connect's first line: the early return.
ConnectSkips(c, B, clWs, clConn) ==
    \/ clWs <= 0
    \/ clConn
    \/ \E s \in wsRef(B, c) : s.state = "OPEN"

\* connect(), run for client c with the closure (clWs, clConn).
connect(c, h, B, clWs, clConn) ==
    IF ConnectSkips(c, B, clWs, clConn)
    THEN [h |-> h, ss |-> B]
    ELSE [ h  |-> [h EXCEPT !.isConnecting = TRUE],
           ss |-> Put(CloseRef(B, c), NewSock(c, clWs)) ]

\* connect() can run here: it returns early or one more socket fits in.
CanConnect(c, B, clWs, clConn) ==
    ConnectSkips(c, B, clWs, clConn) \/ BagCardinality(B) < MaxConns

\* clearTimeout(reconnectTimeoutRef.current)
clearTimeout(timers) == {t \in timers : ~t.ref}

\* The effect's cleanup.
cleanup(c, h, B) ==
    [ h  |-> [h EXCEPT !.timers = clearTimeout(@),
                       !.isConnecting = FALSE,
                       !.reconnectAttempts = 0],
      ss |-> CloseRef(B, c) ]

\* The hook before its first render. timers are the pending setTimeout
\* calls, each with the workspaceId of the connect closure it will call, its
\* delay, and ref: reconnectTimeoutRef.current is this timer.
NoHook ==
    [ phase |-> "init", workspaceId |-> 0, isConnecting |-> FALSE,
      reconnectAttempts |-> 0, timers |-> {} ]

\* The history of a client stops counting at maxReconnectAttempts. It is
\* kept by the actions that are given count = TRUE.
Count(n) == Min(n + 1, maxReconnectAttempts)

\* First render and effect: connect().
Mount(c, w) ==
    /\ hook[c].phase = "init"
    /\ CanConnect(c, socks, w, FALSE)
    /\ LET h0 == [hook[c] EXCEPT !.phase = "mounted", !.workspaceId = w]
           r == connect(c, h0, socks, w, FALSE)
       IN /\ hook' = [hook EXCEPT ![c] = r.h]
          /\ socks' = r.ss
    /\ UNCHANGED <<channels, responses, delivered, history, notWs>>

\* A render with another workspaceId: useCallback makes a new connect, which
\* captures this render's isConnecting; the old effect is cleaned up and the
\* new one calls the new connect.
ChangeWorkspace(c, w) ==
    /\ hook[c].phase = "mounted"
    /\ w # hook[c].workspaceId
    /\ LET clConn == hook[c].isConnecting
           r1 == cleanup(c, hook[c], socks)
           h1 == [r1.h EXCEPT !.workspaceId = w]
       IN /\ CanConnect(c, r1.ss, w, clConn)
          /\ LET r == connect(c, h1, r1.ss, w, clConn)
             IN /\ hook' = [hook EXCEPT ![c] = r.h]
                /\ socks' = r.ss
    /\ UNCHANGED <<channels, responses, delivered, history, notWs>>

\* The component unmounts: the cleanup alone.
Unmount(c) ==
    /\ hook[c].phase = "mounted"
    /\ LET r == cleanup(c, hook[c], socks)
       IN /\ hook' = [hook EXCEPT ![c] = [r.h EXCEPT !.phase = "unmounted"]]
          /\ socks' = r.ss
    /\ UNCHANGED <<channels, responses, delivered, history, notWs>>

\* setTimeout(connect, backoffTime) fires: connect runs with the closure of
\* the socket whose onclose set the timer.
TimerFire(c) ==
    \E t \in hook[c].timers :
        /\ LET h0 == [hook[c] EXCEPT !.timers = @ \ {t}]
           IN /\ CanConnect(c, socks, t.ws, FALSE)
              /\ LET r == connect(c, h0, socks, t.ws, FALSE)
                 IN /\ hook' = [hook EXCEPT ![c] = r.h]
                    /\ socks' = r.ss
        /\ UNCHANGED <<channels, responses, delivered, history, notWs>>

\* ws.onopen
OnOpen(s, count) ==
    /\ s.state = "CONNECTING"
    /\ s.srv = "OPEN"
    /\ socks' = Put(Take(socks, s), [s EXCEPT !.state = "OPEN"])
    /\ hook' = [hook EXCEPT ![s.client].isConnecting = FALSE,
                            ![s.client].reconnectAttempts = 0]
    /\ history' = IF count THEN [history EXCEPT ![s.client] = 0]
                  ELSE history
    /\ UNCHANGED <<channels, responses, delivered, notWs>>

\* ws.onmessage on the next frame of an open socket.
OnMessage(s) ==
    /\ s.state = "OPEN"
    /\ s.inflight # <<>>
    /\ LET data == Head(s.inflight)
           recv == onmessage(s.received, data)
       IN /\ socks' = Put(Take(socks, s),
                          [s EXCEPT !.received = recv, !.inflight = Tail(@)])
          /\ delivered' =
                IF Len(recv) > Len(s.received)
                THEN [delivered EXCEPT ![s.client][data.id] = Min(@ + 1, 2)]
                ELSE delivered
    /\ UNCHANGED <<hook, channels, responses, history, notWs>>

\* ws.onclose of a socket created by the connect closure of workspaceId ws
\* (wsRef.current = null is done by OnClose, on the sockets).
onclose(h, ws) ==
    LET h1 == [h EXCEPT !.isConnecting = FALSE]
    IN IF ShouldReconnect(h.reconnectAttempts)
       THEN [h1 EXCEPT
               !.reconnectAttempts = @ + 1,
               !.timers = clearTimeout(@) \cup
                    {[ws |-> ws, ref |-> TRUE,
                      delay |-> backoffTime(h.reconnectAttempts)]}]
       ELSE h1

\* The close event of socket s is dispatched (after ws.onerror when the
\* connection failed, which sets isConnecting to false as onclose does).
OnClose(s, count) ==
    /\ s.state = "CLOSING"
    /\ hook' = [hook EXCEPT ![s.client] = onclose(hook[s.client], s.ws)]
    /\ LET t == [s EXCEPT !.state = "CLOSED", !.ref = FALSE]
           B == ClearRef(Take(socks, s), s.client)
       IN socks' = IF Dead(t) THEN B ELSE Put(B, t)
    /\ history' = IF count THEN [history EXCEPT ![s.client] = Count(@)]
                  ELSE history
    /\ UNCHANGED <<channels, responses, delivered, notWs>>

\* The connection fails (refused, or lost): the browser closes the socket.
NetFail(s) ==
    /\ s.state \in {"CONNECTING", "OPEN"}
    /\ socks' = Put(Take(socks, s), [s EXCEPT !.state = "CLOSING"])
    /\ UNCHANGED <<hook, channels, responses, delivered, history, notWs>>

(* ------------------------------ the server ----------------------------- *)

\* The registry: workspaceId -> the set of its connections.
registry(B, w) == {s \in BagToSet(B) : w \in s.reg}

register_Everywhere(s, w) == [s EXCEPT !.reg = Workspaces]

\* register(connection, workspaceId)
register(s, w) == [s EXCEPT !.reg = @ \cup {w}]

\* unregister(connection)
unregister(s) == [s EXCEPT !.reg = {}]

broadcast_ToAll(B, w, ev) ==
    MapBag(B, [s \in BagToSet(B) |->
        IF s.srv = "OPEN"
        THEN [s EXCEPT !.inflight = Append(@, ev)]
        ELSE s])

\* broadcast(workspaceId, event): the event is sent on every socket of the
\* workspace's set that is open; the others are skipped silently.
broadcast(B, w, ev) ==
    MapBag(B, [s \in BagToSet(B) |->
        IF s \in registry(B, w) /\ s.srv = "OPEN"
        THEN [s EXCEPT !.inflight = Append(@, ev)]
        ELSE s])

broadcastThrows_OnClosed(B, w) ==
    \E s \in registry(B, w) : s.srv # "OPEN"

\* broadcast raises nothing, whatever the state of the sockets.
broadcastThrows(B, w) == FALSE

\* The upgrade of GET /ws?workspaceId=w: the server registers the connection.
ServerAccept(s) ==
    /\ s.srv = "NONE"
    /\ s.state = "CONNECTING"
    /\ socks' = Put(Take(socks, s), register([s EXCEPT !.srv = "OPEN"], s.ws))
    /\ UNCHANGED <<hook, channels, responses, delivered, history, notWs>>

\* The server's end of the connection closes (the client closed it, or it
\* was lost); the close handler has not run yet.
ServerDisconnect(s) ==
    /\ s.srv = "OPEN"
    /\ s.state \in {"CLOSING", "CLOSED"}
    /\ socks' = Put(Take(socks, s), [s EXCEPT !.srv = "CLOSED"])
    /\ UNCHANGED <<hook, channels, responses, delivered, history, notWs>>

\* The server's close handler: unregister(connection).
ServerUnregister(s) ==
    /\ s.srv = "CLOSED"
    /\ LET t == unregister([s EXCEPT !.srv = "GONE"])
       IN socks' = IF Dead(t) THEN Take(socks, s) ELSE Put(Take(socks, s), t)
    /\ UNCHANGED <<hook, channels, responses, delivered, history, notWs>>

ChannelCreated(w, id) ==
    [type |-> "CHANNEL_CREATED", workspaceId |-> w, id |-> id]

\* POST /channels for workspace w: the row is inserted and the event is
\* broadcast, in one turn of the server's event loop.
CreateChannel(w) ==
    /\ Len(channels) < MaxChannels
    /\ LET id == Len(channels) + 1
           throws == broadcastThrows(socks, w)
           note == [s \in Socks |->
               [s EXCEPT
                  !.during = IF s.srv = "OPEN" /\ s.ws = w
                             THEN @ \cup {id} ELSE @,
                  !.duringOpen = IF s.srv = "OPEN" /\ s.state = "OPEN" /\ s.ws = w
                                 THEN @ \cup {id} ELSE @,
                  !.dropped = IF s.srv = "CLOSED" /\ w \in s.reg
                              THEN @ \cup {id} ELSE @]]
           noted == MapBag(socks, note)
       IN /\ channels' = Append(channels, w)
          /\ responses' = Append(responses, IF throws THEN 500 ELSE 201)
          /\ socks' = IF throws THEN noted
                      ELSE broadcast(noted, w, ChannelCreated(w, id))
    /\ UNCHANGED <<hook, delivered, history, notWs>>

(* --------------------------- the channel list -------------------------- *)

\* channelSlice: initialState
initialState ==
    [ channels |-> <<>>, currentChannel |-> 0, loading |-> FALSE,
      error |-> "null", showArchived |-> FALSE ]

\* reducers.toggleShowArchived
toggleShowArchived(state) == [state EXCEPT !.showArchived = ~@]

\* reducers.clearChannels
clearChannels(state) ==
    [state EXCEPT !.channels = <<>>, !.currentChannel = 0, !.error = "null"]

\* reducers.handleChannelCreated: the channel is pushed unless one with its
\* channelId is in the list.
handleChannelCreated(state, channel) ==
    LET channelExists ==
            \E i \in DOMAIN state.channels :
                state.channels[i].channelId = channel.channelId
    IN IF ~channelExists
       THEN [state EXCEPT !.channels = Append(@, channel)]
       ELSE state

\* extraReducers: fetchChannels.pending
fetchChannels_pending(state) ==
    [state EXCEPT !.loading = TRUE, !.error = "null"]

\* extraReducers: fetchChannels.fulfilled
fetchChannels_fulfilled(state, payload) ==
    [state EXCEPT !.loading = FALSE, !.channels = payload, !.error = "null"]

\* extraReducers: fetchChannels.rejected
fetchChannels_rejected(state, payload) ==
    [state EXCEPT !.loading = FALSE, !.error = payload]

\* the most fetchChannels thunks in flight at the same time
MaxFetches == 2

\* the channel of channelId id, as the server returns it
Channel(id) == [channelId |-> id, workspaceId |-> serverChannels[id]]

\* The body of GET /workspaces/:workspaceId/channels: the workspace's
\* channels at the moment the server reads them.
ChannelsOf(w) ==
    LET F[i \in 0..Len(serverChannels)] ==
            IF i = 0 THEN <<>>
            ELSE IF serverChannels[i] = w THEN Append(F[i - 1], Channel(i))
            ELSE F[i - 1]
    IN F[Len(serverChannels)]

\* dispatch(fetchChannels({workspaceId, showArchived})): the pending action
\* is reduced and the request is sent.
fetchChannels(state, fs, w) ==
    [ state |-> fetchChannels_pending(state),
      fs    |-> fs \cup {[workspaceId |-> w, showArchived |-> state.showArchived,
                          phase |-> "sent", ok |-> FALSE, payload |-> <<>>]} ]

\* ChannelList's effect, run after a render in which currentWorkspace's
\* workspaceId or showArchived changed.
loadChannels(state, fs, w) ==
    IF w # 0 THEN fetchChannels(state, fs, w) ELSE [state |-> state, fs |-> fs]

CanLoad(w) == w = 0 \/ Cardinality(fetches) < MaxFetches

ChInit ==
    /\ channelState = initialState
    /\ currentWorkspace = 0
    /\ serverChannels = <<>>
    /\ fetches = {}
    /\ wsEvents = {}
    /\ handled = {}

\* Another workspace becomes the current one: the page's socket is closed
\* with the events still on their way, and the effect loads the channels.
SelectWorkspace(w) ==
    /\ w # currentWorkspace
    /\ CanLoad(w)
    /\ currentWorkspace' = w
    /\ LET r == loadChannels(channelState, fetches, w)
       IN /\ channelState' = r.state
          /\ fetches' = r.fs
    /\ wsEvents' = {}
    /\ handled' = {}
    /\ UNCHANGED <<serverChannels, notCh>>

\* The "show archived" switch: dispatch(toggleShowArchived()), then the effect.
ToggleShowArchived ==
    /\ CanLoad(currentWorkspace)
    /\ LET r == loadChannels(toggleShowArchived(channelState), fetches,
                             currentWorkspace)
       IN /\ channelState' = r.state
          /\ fetches' = r.fs
    /\ UNCHANGED <<currentWorkspace, serverChannels, wsEvents, handled, notCh>>

\* The server answers a request: the channels it holds now, or an error.
FetchAnswered(f, ok) ==
    /\ f.phase = "sent"
    /\ fetches' = (fetches \ {f}) \cup
            {[f EXCEPT !.phase = "answered", !.ok = ok,
                       !.payload = IF ok THEN ChannelsOf(f.workspaceId) ELSE <<>>]}
    /\ UNCHANGED <<channelState, currentWorkspace, serverChannels, wsEvents,
                   handled, notCh>>

\* The response reaches the thunk: fulfilled with the body, or rejected.
FetchSettled(f) ==
    /\ f.phase = "answered"
    /\ fetches' = fetches \ {f}
    /\ channelState' =
          IF f.ok THEN fetchChannels_fulfilled(channelState, f.payload)
          ELSE fetchChannels_rejected(channelState, "Failed to fetch channels")
    /\ UNCHANGED <<currentWorkspace, serverChannels, wsEvents, handled, notCh>>

\* A channel is created in workspace w (by any user): the event is broadcast
\* and is on its way to this page if its socket is subscribed to w.
ChannelCreatedInWorkspace(w) ==
    /\ Len(serverChannels) < MaxChannels
    /\ serverChannels' = Append(serverChannels, w)
    /\ wsEvents' = IF w = currentWorkspace
                   THEN wsEvents \cup {Len(serverChannels) + 1}
                   ELSE wsEvents
    /\ UNCHANGED <<channelState, currentWorkspace, fetches, handled, notCh>>

\* onChannelEvent for a CHANNEL_CREATED event: dispatch(handleChannelCreated(channel)).
OnChannelEvent(id) ==
    /\ id \in wsEvents
    /\ wsEvents' = wsEvents \ {id}
    /\ channelState' = handleChannelCreated(channelState, Channel(id))
    /\ handled' = handled \cup {id}
    /\ UNCHANGED <<currentWorkspace, serverChannels, fetches, notCh>>

\* dispatch(clearChannels())
ClearChannels ==
    /\ channelState' = clearChannels(channelState)
    /\ handled' = {}
    /\ UNCHANGED <<currentWorkspace, serverChannels, fetches, wsEvents, notCh>>

(* ------------------------------ the tokens ----------------------------- *)

Users == {1, 2}

\* part_001:17, "2h", and part_001:18, "7d", in hours
ACCESS_TOKEN_EXPIRY == 2
REFRESH_TOKEN_EXPIRY == 168

JWT_SECRET == "JWT_SECRET"
JWT_REFRESH_SECRET == "JWT_REFRESH_SECRET"

\* the most tokens signed
MaxTokens == 6

\* jwt.sign({ userId }, secret, { expiresIn }) at time t
sign(userId, secret, expiresIn, t) ==
    [userId |-> userId, secret |-> secret, iat |-> t, exp |-> t + expiresIn]

\* jwt.verify(token, secret) at time t: the signature is the secret's and the
\* token has not expired.
verify(token, secret, t) == token.secret = secret /\ t < token.exp

\* generateTokens(userId) at time t
generateTokens(userId, t) ==
    [ accessToken  |-> sign(userId, JWT_SECRET, ACCESS_TOKEN_EXPIRY, t),
      refreshToken |-> sign(userId, JWT_REFRESH_SECRET, REFRESH_TOKEN_EXPIRY, t) ]

AuthInit ==
    /\ now = 0
    /\ issued = {}
    /\ loggedOut = {}
    /\ lastRefresh = [status |-> 0]

CanSign == Cardinality(issued) + 2 <= MaxTokens

\* POST /auth/login with the email and password of user u
Login(u) ==
    /\ CanSign
    /\ LET tokens == generateTokens(u, now)
       IN issued' = issued \cup {tokens.accessToken, tokens.refreshToken}
    /\ UNCHANGED <<now, loggedOut, lastRefresh, notAuth>>

\* POST /auth/refresh with { refreshToken }: any token signed so far. The
\* answer records whether the token was one a logout should have ended.
Refresh(refreshToken) ==
    /\ CanSign
    /\ IF verify(refreshToken, JWT_REFRESH_SECRET, now)
       THEN LET tokens == generateTokens(refreshToken.userId, now)
            IN /\ issued' = issued \cup {tokens.accessToken, tokens.refreshToken}
               /\ lastRefresh' = [status |-> 200, tokens |-> tokens,
                                  refreshToken |-> refreshToken,
                                  afterLogout |-> refreshToken \in loggedOut]
       ELSE /\ issued' = issued
            /\ lastRefresh' = [status |-> 401,
                               refreshToken |-> refreshToken,
                               afterLogout |-> refreshToken \in loggedOut]
    /\ UNCHANGED <<now, loggedOut, notAuth>>

\* POST /auth/logout of a request isAuthenticated lets through as user u, who
\* has logged in: req.logout(callback), which fails (500) or not (200).
Logout(u, err) ==
    /\ \E t \in issued : t.userId = u
    /\ loggedOut' =
          IF err THEN loggedOut
          ELSE loggedOut \cup
               {t \in issued : t.userId = u /\ t.secret = JWT_REFRESH_SECRET}
    /\ UNCHANGED <<now, issued, lastRefresh, notAuth>>

\* Time passes, until token t expires.
Expire(t) ==
    /\ now < t.exp
    /\ now' = t.exp
    /\ UNCHANGED <<issued, loggedOut, lastRefresh, notAuth>>

(* ------------------------------- the pins ------------------------------ *)

\* The handlers are async functions: each await is a step of its own, and
\* the steps of requests in flight interleave. The database answers every
\* statement; whether pinnedMessages has a unique index on
\* (messageId, workspaceId) is a matter of the schema, which is either way.

\* the requests to the pin routes
MaxPinRequests == 3

\* messages: messageId -> workspaceId of the rows that exist
messages == (1 :> 1) @@ (2 :> 2)
\* the :messageId of a request; 3 is the id of no message
MessageIds == {1, 2, 3}

\* req.body.reason: a string, given by its length, or NotAString
NotAString == -1
Reasons == {NotAString, 0, 1, 500, 501}

\* pinReasonSchema.safeParse(req.body).success: z.string().min(1).max(500)
pinReasonSchema(reason) == reason # NotAString /\ reason >= 1 /\ reason <= 500

\* the rows of pinnedMessages for (messageId, workspaceId)
existingPin(P, messageId, workspaceId) ==
    {p \in P : p.messageId = messageId /\ p.workspaceId = workspaceId}

deletePins_All(P, messageId, workspaceId) == {}

\* db.delete(pinnedMessages).where(and(eq(messageId), eq(workspaceId)))
deletePins(P, messageId, workspaceId) ==
    P \ existingPin(P, messageId, workspaceId)

\* the requests that have not been answered
Running == {i \in DOMAIN pinReqs : pinReqs[i].pc # "done"}

Answer(r, status) == [r EXCEPT !.pc = "done", !.status = status]

PinInit ==
    /\ pins = {}
    /\ pinSeq = 0
    /\ pinReqs = <<>>
    /\ uniquePins = FALSE

\* POST /messages/:messageId/pin arrives from user u (isAuthenticated has
\* let it through): the reason is validated, then the message is looked for.
PinStart(u, m, reason) ==
    /\ Len(pinReqs) < MaxPinRequests
    /\ LET r == [kind |-> "pin", messageId |-> m, user |-> u, reason |-> reason,
                 pc |-> "findMessage", workspaceId |-> 0, status |-> 0,
                 with |-> Running]
       IN pinReqs' = Append(pinReqs,
                        IF pinReasonSchema(reason) THEN r ELSE Answer(r, 400))
    /\ UNCHANGED <<pins, pinSeq, uniquePins, notPin>>

\* DELETE /messages/:messageId/pin arrives (the route does not use req.user).
UnpinStart(m) ==
    /\ Len(pinReqs) < MaxPinRequests
    /\ pinReqs' = Append(pinReqs,
            [kind |-> "unpin", messageId |-> m, user |-> 0, reason |-> NotAString,
             pc |-> "findMessage", workspaceId |-> 0, status |-> 0,
             with |-> Running])
    /\ UNCHANGED <<pins, pinSeq, uniquePins, notPin>>

\* db.query.messages.findFirst, in either route: 404 without the message.
FindMessage(i) ==
    /\ pinReqs[i].pc = "findMessage"
    /\ LET r == pinReqs[i]
       IN pinReqs' = [pinReqs EXCEPT ![i] =
            IF r.messageId \notin DOMAIN messages THEN Answer(r, 404)
            ELSE [r EXCEPT !.workspaceId = messages[r.messageId],
                           !.pc = IF r.kind = "pin" THEN "findPin" ELSE "delete"]]
    /\ UNCHANGED <<pins, pinSeq, uniquePins, notPin>>

\* db.query.pinnedMessages.findFirst: 409 with a pin of the message.
FindPin(i) ==
    /\ pinReqs[i].pc = "findPin"
    /\ LET r == pinReqs[i]
       IN pinReqs' = [pinReqs EXCEPT ![i] =
            IF existingPin(pins, r.messageId, r.workspaceId) # {}
            THEN Answer(r, 409)
            ELSE [r EXCEPT !.pc = "insert"]]
    /\ UNCHANGED <<pins, pinSeq, uniquePins, notPin>>

\* db.insert(pinnedMessages).values(...).returning(), then 201; the insert
\* a unique index refuses throws, and the catch answers 500.
InsertPin(i) ==
    /\ pinReqs[i].pc = "insert"
    /\ LET r == pinReqs[i]
           refused == uniquePins /\ existingPin(pins, r.messageId, r.workspaceId) # {}
       IN IF refused
          THEN /\ pinReqs' = [pinReqs EXCEPT ![i] = Answer(r, 500)]
               /\ UNCHANGED <<pins, pinSeq>>
          ELSE /\ pinSeq' = pinSeq + 1
               /\ pins' = pins \cup {[pinnedId |-> pinSeq + 1,
                                      messageId |-> r.messageId,
                                      workspaceId |-> r.workspaceId,
                                      pinnedBy |-> r.user]}
               /\ pinReqs' = [pinReqs EXCEPT ![i] = Answer(r, 201)]
    /\ UNCHANGED <<uniquePins, notPin>>

\* db.delete(pinnedMessages)..., then 204.
DeletePin(i) ==
    /\ pinReqs[i].pc = "delete"
    /\ LET r == pinReqs[i]
       IN /\ pins' = deletePins(pins, r.messageId, r.workspaceId)
          /\ pinReqs' = [pinReqs EXCEPT ![i] = Answer(r, 204)]
    /\ UNCHANGED <<pinSeq, uniquePins, notPin>>

(* ------------------ POST /auth/register, POST /workspaces -------------- *)

\* the requests to the two routes
MaxAccRequests == 3

\* req.body.email, as characters
Emails == { <<"a", "@", "b", ".", "c">>, <<"d", "@", "b", ".", "c">>, <<"a", "@", "b">> }
\* req.body.password, as characters
Passwords == { <<"P", "a", "s", "s", "w", "0", "r", "d", "!">>, <<"p", "a", "s", "s", "w", "0", "r", "d">> }
DisplayNames == {"ann"}
\* req.body.name of POST /workspaces
Names == {"", "global", "team"}

Whitespace == {" "}
Uppercase == {"P"}
Lowercase == {"a", "b", "c", "d", "p", "r", "s", "w"}
Digits == {"0"}

\* /^[^\s@]+@[^\s@]+\.[^\s@]+$/
isValidEmail(email) ==
    \E at, dot \in DOMAIN email :
        /\ 1 < at /\ at + 1 < dot /\ dot < Len(email)
        /\ email[at] = "@" /\ email[dot] = "."
        /\ \A k \in DOMAIN email \ {at} : email[k] \notin Whitespace \cup {"@"}

isStrongPassword(password) ==
    /\ Len(password) >= 8
    /\ \E k \in DOMAIN password : password[k] \in Uppercase
    /\ \E k \in DOMAIN password : password[k] \in Lowercase
    /\ \E k \in DOMAIN password : password[k] \in Digits
    /\ \E k \in DOMAIN password : password[k] \notin Uppercase \cup Lowercase \cup Digits

\* createWorkspaceSchema: name is a string of at least one character
createWorkspaceSchema(name) == name # ""

\* the name of the default workspace of a new user
defaultName(displayName) == displayName \o "'s Workspace"

\* the rows the two routes insert
workspaceRow(P, name) == [workspaceId |-> Cardinality(P) + 1, name |-> name]
generalChannel_Private(workspaceId) ==
    [workspaceId |-> workspaceId, name |-> "general", channelType |-> "PRIVATE"]
generalChannel(workspaceId) ==
    [workspaceId |-> workspaceId, name |-> "general", channelType |-> "PUBLIC"]
userRow(P, email, workspaceId) ==
    [userId |-> Cardinality(P) + 1, email |-> email,
     defaultWorkspace |-> workspaceId, emailVerified |-> FALSE]
membership(userId, workspaceId, role) ==
    [userId |-> userId, workspaceId |-> workspaceId, role |-> role]

\* db.query.users.findFirst({where: eq(users.email, email)})
existingUser(P, email) == {u \in P : u.email = email}
\* db.query.workspaces.findFirst({where: eq(workspaces.name, 'global')})
globalWorkspace(P) == {w \in P : w.name = "global"}

AccRunning == {i \in DOMAIN accReqs : accReqs[i].pc # "done"}

AccInit ==
    /\ users = {}
    /\ workspaces = {}
    /\ workspaceChannels = {}
    /\ userWorkspaces = {}
    /\ accReqs = <<>>
    /\ uniqueEmail = FALSE

\* a request arrives; hadUser and hadGlobal record what the tables held then
Request(kind, email, name, creator, status) ==
    [kind |-> kind, email |-> email, name |-> name, creator |-> creator,
     pc |-> IF status = 0 THEN "start" ELSE "done", status |-> status,
     workspaceId |-> 0, userId |-> 0, global |-> 0,
     hadUser |-> existingUser(users, email) # {},
     hadGlobal |-> globalWorkspace(workspaces) # {},
     with |-> AccRunning]

Goto(r, pc) == [r EXCEPT !.pc = pc]

\* POST /auth/register arrives: the two validations
RegisterStart(email, password, displayName) ==
    /\ Len(accReqs) < MaxAccRequests
    /\ LET status == IF ~isValidEmail(email) THEN 400
                     ELSE IF ~isStrongPassword(password) THEN 400 ELSE 0
       IN accReqs' = Append(accReqs,
              Request("register", email, defaultName(displayName), 0, status))
    /\ UNCHANGED <<users, workspaces, workspaceChannels, userWorkspaces, uniqueEmail, notAcc>>

\* register: the lookup of the email
FindUser(i) ==
    /\ i \in DOMAIN accReqs
    /\ accReqs[i].kind = "register" /\ accReqs[i].pc = "start"
    /\ LET r == accReqs[i]
       IN accReqs' = [accReqs EXCEPT ![i] =
              IF existingUser(users, r.email) # {} THEN Answer(r, 409)
              ELSE Goto(r, "insertWorkspace")]
    /\ UNCHANGED <<users, workspaces, workspaceChannels, userWorkspaces, uniqueEmail, notAcc>>

\* register: the default workspace
RegisterWorkspace(i) ==
    /\ i \in DOMAIN accReqs
    /\ accReqs[i].kind = "register" /\ accReqs[i].pc = "insertWorkspace"
    /\ LET r == accReqs[i]
           workspace == workspaceRow(workspaces, r.name)
       IN /\ workspaces' = workspaces \cup {workspace}
          /\ accReqs' = [accReqs EXCEPT ![i] =
                 [Goto(r, "insertChannel") EXCEPT !.workspaceId = workspace.workspaceId]]
    /\ UNCHANGED <<users, workspaceChannels, userWorkspaces, uniqueEmail, notAcc>>

\* register: the channel of the default workspace
RegisterChannel(i) ==
    /\ i \in DOMAIN accReqs
    /\ accReqs[i].kind = "register" /\ accReqs[i].pc = "insertChannel"
    /\ LET r == accReqs[i]
       IN /\ workspaceChannels' = workspaceChannels \cup {generalChannel(r.workspaceId)}
          /\ accReqs' = [accReqs EXCEPT ![i] = Goto(r, "insertUser")]
    /\ UNCHANGED <<users, workspaces, userWorkspaces, uniqueEmail, notAcc>>

\* register: the user row; a refused insert throws and the catch answers 500
RegisterUser(i) ==
    /\ i \in DOMAIN accReqs
    /\ accReqs[i].kind = "register" /\ accReqs[i].pc = "insertUser"
    /\ LET r == accReqs[i]
           user == userRow(users, r.email, r.workspaceId)
           refused == uniqueEmail /\ existingUser(users, r.email) # {}
       IN IF refused
          THEN /\ accReqs' = [accReqs EXCEPT ![i] = Answer(r, 500)]
               /\ UNCHANGED users
          ELSE /\ users' = users \cup {user}
               /\ accReqs' = [accReqs EXCEPT ![i] =
                      [Goto(r, "insertOwner") EXCEPT !.userId = user.userId]]
    /\ UNCHANGED <<workspaces, workspaceChannels, userWorkspaces, uniqueEmail, notAcc>>

\* register: the user owns the default workspace
RegisterOwner(i) ==
    /\ i \in DOMAIN accReqs
    /\ accReqs[i].kind = "register" /\ accReqs[i].pc = "insertOwner"
    /\ LET r == accReqs[i]
       IN /\ userWorkspaces' = userWorkspaces \cup {membership(r.userId, r.workspaceId, "OWNER")}
          /\ accReqs' = [accReqs EXCEPT ![i] = Goto(r, "findGlobal")]
    /\ UNCHANGED <<users, workspaces, workspaceChannels, uniqueEmail, notAcc>>

\* register: the lookup of the workspace named 'global' (findFirst: any of them)
FindGlobal(i) ==
    /\ i \in DOMAIN accReqs
    /\ accReqs[i].kind = "register" /\ accReqs[i].pc = "findGlobal"
    /\ LET r == accReqs[i]
       IN IF globalWorkspace(workspaces) = {}
          THEN accReqs' = [accReqs EXCEPT ![i] = Goto(r, "verify")]
          ELSE \E g \in globalWorkspace(workspaces) :
                  accReqs' = [accReqs EXCEPT ![i] =
                      [Goto(r, "insertMember") EXCEPT !.global = g.workspaceId]]
    /\ UNCHANGED <<users, workspaces, workspaceChannels, userWorkspaces, uniqueEmail, notAcc>>

\* register: the user is a member of the global workspace
RegisterMember(i) ==
    /\ i \in DOMAIN accReqs
    /\ accReqs[i].kind = "register" /\ accReqs[i].pc = "insertMember"
    /\ LET r == accReqs[i]
       IN /\ userWorkspaces' = userWorkspaces \cup {membership(r.userId, r.global, "MEMBER")}
          /\ accReqs' = [accReqs EXCEPT ![i] = Goto(r, "verify")]
    /\ UNCHANGED <<users, workspaces, workspaceChannels, uniqueEmail, notAcc>>

\* register: emailVerified is set and the request answers 201
RegisterVerify(i) ==
    /\ i \in DOMAIN accReqs
    /\ accReqs[i].kind = "register" /\ accReqs[i].pc = "verify"
    /\ LET r == accReqs[i]
       IN /\ users' = {IF u.userId = r.userId THEN [u EXCEPT !.emailVerified = TRUE] ELSE u :
                          u \in users}
          /\ accReqs' = [accReqs EXCEPT ![i] = Answer(r, 201)]
    /\ UNCHANGED <<workspaces, workspaceChannels, userWorkspaces, uniqueEmail, notAcc>>

\* POST /workspaces arrives from a user: the validation
CreateStart(creator, name) ==
    /\ Len(accReqs) < MaxAccRequests
    /\ creator \in {u.userId : u \in users}
    /\ accReqs' = Append(accReqs,
           Request("workspace", <<>>, name, creator,
                   IF createWorkspaceSchema(name) THEN 0 ELSE 400))
    /\ UNCHANGED <<users, workspaces, workspaceChannels, userWorkspaces, uniqueEmail, notAcc>>

\* POST /workspaces: the workspace row
CreateWorkspace(i) ==
    /\ i \in DOMAIN accReqs
    /\ accReqs[i].kind = "workspace" /\ accReqs[i].pc = "start"
    /\ LET r == accReqs[i]
           workspace == workspaceRow(workspaces, r.name)
       IN /\ workspaces' = workspaces \cup {workspace}
          /\ accReqs' = [accReqs EXCEPT ![i] =
                 [Goto(r, "insertOwner") EXCEPT !.workspaceId = workspace.workspaceId]]
    /\ UNCHANGED <<users, workspaceChannels, userWorkspaces, uniqueEmail, notAcc>>

\* POST /workspaces: the creator owns the workspace
CreateOwner(i) ==
    /\ i \in DOMAIN accReqs
    /\ accReqs[i].kind = "workspace" /\ accReqs[i].pc = "insertOwner"
    /\ LET r == accReqs[i]
       IN /\ userWorkspaces' = userWorkspaces \cup {membership(r.creator, r.workspaceId, "OWNER")}
          /\ accReqs' = [accReqs EXCEPT ![i] = Goto(r, "insertChannel")]
    /\ UNCHANGED <<users, workspaces, workspaceChannels, uniqueEmail, notAcc>>

\* POST /workspaces: the general channel, and the request answers 201
CreateGeneral(i) ==
    /\ i \in DOMAIN accReqs
    /\ accReqs[i].kind = "workspace" /\ accReqs[i].pc = "insertChannel"
    /\ LET r == accReqs[i]
       IN /\ workspaceChannels' = workspaceChannels \cup {generalChannel(r.workspaceId)}
          /\ accReqs' = [accReqs EXCEPT ![i] = Answer(r, 201)]
    /\ UNCHANGED <<users, workspaces, userWorkspaces, uniqueEmail, notAcc>>

(* --------------------------- the specification ------------------------- *)

WsInit ==
    /\ hook = [c \in Clients |-> NoHook]
    /\ socks = EmptyBag
    /\ channels = <<>>
    /\ responses = <<>>
    /\ delivered = [c \in Clients |-> [i \in ChannelIds |-> 0]]
    /\ history = [c \in Clients |-> 0]

Init == WsInit /\ ChInit /\ AuthInit /\ PinInit /\ AccInit

\* The hooks, the server and a network that loses no connection: sockets
\* close when the hook closes them.
Next ==
    \/ \E c \in Clients, w \in WorkspaceIds : Mount(c, w)
    \/ \E c \in Clients, w \in WorkspaceIds : ChangeWorkspace(c, w)
    \/ \E c \in Clients : Unmount(c)
    \/ \E c \in Clients : TimerFire(c)
    \/ \E s \in Socks : OnOpen(s, FALSE)
    \/ \E s \in Socks : OnMessage(s)
    \/ \E s \in Socks : OnClose(s, FALSE)
    \/ \E s \in Socks : ServerAccept(s)
    \/ \E s \in Socks : ServerDisconnect(s)
    \/ \E s \in Socks : ServerUnregister(s)
    \/ \E w \in Workspaces : CreateChannel(w)

Spec == Init /\ [][Next]_vars

\* The hook against a network that accepts, refuses and loses connections;
\* no channel is created.
HookNext ==
    \/ \E c \in Clients, w \in WorkspaceIds : Mount(c, w)
    \/ \E c \in Clients, w \in WorkspaceIds : ChangeWorkspace(c, w)
    \/ \E c \in Clients : Unmount(c)
    \/ \E c \in Clients : TimerFire(c)
    \/ \E s \in Socks : OnOpen(s, TRUE)
    \/ \E s \in Socks : OnClose(s, TRUE)
    \/ \E s \in Socks : NetFail(s)
    \/ \E s \in Socks : ServerAccept(s)
    \/ \E s \in Socks : ServerDisconnect(s)
    \/ \E s \in Socks : ServerUnregister(s)

HookSpec == Init /\ [][HookNext]_vars

\* One page's channel list, the server's channels and the events between them.
ChannelNext ==
    \/ \E w \in WorkspaceIds : SelectWorkspace(w)
    \/ ToggleShowArchived
    \/ \E f \in fetches, ok \in BOOLEAN : FetchAnswered(f, ok)
    \/ \E f \in fetches : FetchSettled(f)
    \/ \E w \in Workspaces : ChannelCreatedInWorkspace(w)
    \/ \E id \in wsEvents : OnChannelEvent(id)
    \/ ClearChannels

ChannelSpec == Init /\ [][ChannelNext]_vars

\* The token routes and the clock.
AuthNext ==
    \/ \E u \in Users : Login(u)
    \/ \E t \in issued : Refresh(t)
    \/ \E u \in Users, err \in BOOLEAN : Logout(u, err)
    \/ \E t \in issued : Expire(t)

AuthSpec == Init /\ [][AuthNext]_vars

\* The pin routes, over a pinnedMessages table with or without the unique index.
PinInitAny ==
    /\ WsInit /\ ChInit /\ AuthInit /\ AccInit
    /\ pins = {}
    /\ pinSeq = 0
    /\ pinReqs = <<>>
    /\ uniquePins \in BOOLEAN

PinNext ==
    \/ \E u \in Users, m \in MessageIds, reason \in Reasons : PinStart(u, m, reason)
    \/ \E m \in MessageIds : UnpinStart(m)
    \/ \E i \in DOMAIN pinReqs : FindMessage(i)
    \/ \E i \in DOMAIN pinReqs : FindPin(i)
    \/ \E i \in DOMAIN pinReqs : InsertPin(i)
    \/ \E i \in DOMAIN pinReqs : DeletePin(i)

PinSpec == PinInitAny /\ [][PinNext]_vars

\* The register and workspace routes alone. @db/schema is not among the
\* sources: the users table may or may not refuse a second row for an email.
AccInitAny ==
    /\ WsInit /\ ChInit /\ AuthInit /\ PinInit
    /\ users = {}
    /\ workspaces = {}
    /\ workspaceChannels = {}
    /\ userWorkspaces = {}
    /\ accReqs = <<>>
    /\ uniqueEmail \in BOOLEAN

AccNext ==
    \/ \E email \in Emails, password \in Passwords, displayName \in DisplayNames :
          RegisterStart(email, password, displayName)
    \/ \E i \in DOMAIN accReqs : FindUser(i)
    \/ \E i \in DOMAIN accReqs : RegisterWorkspace(i)
    \/ \E i \in DOMAIN accReqs : RegisterChannel(i)
    \/ \E i \in DOMAIN accReqs : RegisterUser(i)
    \/ \E i \in DOMAIN accReqs : RegisterOwner(i)
    \/ \E i \in DOMAIN accReqs : FindGlobal(i)
    \/ \E i \in DOMAIN accReqs : RegisterMember(i)
    \/ \E i \in DOMAIN accReqs : RegisterVerify(i)
    \/ \E creator \in 1..MaxAccRequests, name \in Names : CreateStart(creator, name)
    \/ \E i \in DOMAIN accReqs : CreateWorkspace(i)
    \/ \E i \in DOMAIN accReqs : CreateOwner(i)
    \/ \E i \in DOMAIN accReqs : CreateGeneral(i)

AccSpec == AccInitAny /\ [][AccNext]_vars

(* ----------------------- properties: the broadcast --------------------- *)

\* the channels named by a sequence of events
ids(evs) == {evs[i].id : i \in DOMAIN evs}

\* every event the server sent on connection s, handled or not yet
Sent(s) == s.received \o s.inflight

NoRepeat(evs) == \A i, j \in DOMAIN evs : evs[i].id = evs[j].id => i = j

\* C1, as the specification states it: a connection receives a
\* CHANNEL_CREATED event for a channel if and only if the channel was created
\* in its workspace while it was connected; so a connection that has closed
\* has received the event of every channel created while both of its ends
\* were open.
C1_IffCreatedWhileConnected ==
    \A s \in Socks :
        /\ ids(s.received) \subseteq s.during
        /\ s.state = "CLOSED" => s.duringOpen \subseteq ids(s.received)

\* C1, as the code has it: a connection receives only CHANNEL_CREATED events
\* of channels created in its workspace while the server held it open; every
\* such creation puts exactly one event on the connection, which is handled
\* if the socket is still open when the frame arrives, and is never handled
\* once the socket is closing or closed.
C1_CreatedWhileConnected ==
    \A s \in Socks :
        /\ \A i \in DOMAIN Sent(s) :
              /\ Sent(s)[i].type = "CHANNEL_CREATED"
              /\ Sent(s)[i].id \in DOMAIN channels
              /\ channels[Sent(s)[i].id] = s.ws
        /\ ids(Sent(s)) = s.during
        /\ NoRepeat(Sent(s))
        /\ s.duringOpen \subseteq s.during
        /\ s.state = "OPEN" /\ s.inflight # <<>> => ENABLED OnMessage(s)
        /\ s.state # "OPEN" => ~ENABLED OnMessage(s)

\* a connection has handled the event of one of the two channels, the one
\* that was created while it was connected
C1_Witness ==
    \E s \in Socks :
        /\ Len(channels) = 2
        /\ Cardinality(s.during) = 1
        /\ ids(s.received) = s.during

\* C2: workspace isolation. A connection is registered under the workspace
\* of its URL only, and every event sent on it or handled by it is an event
\* of that workspace: broadcast(W, event) reaches no connection of W' # W.
C2_WorkspaceIsolation ==
    \A s \in Socks :
        /\ s.reg \subseteq {s.ws}
        /\ \A i \in DOMAIN Sent(s) : Sent(s)[i].workspaceId = s.ws

\* connections of both workspaces are open, a channel has been created in
\* each workspace, and one connection has handled the event of its own
C2_Witness ==
    \E s, t \in Socks :
        /\ s.ws # t.ws
        /\ s.srv = "OPEN" /\ t.srv = "OPEN"
        /\ Len(channels) = 2 /\ channels[1] # channels[2]
        /\ Len(s.received) = 1
        /\ t.during = {}

\* C3: a broadcast to a workspace whose set holds a disconnected connection
\* sends nothing on that connection, then or later, raises nothing (every
\* POST /channels answers 201 and creates its channel), and sends the event
\* once on every connected connection of the workspace.
C3_DisconnectedSkipped ==
    /\ Len(responses) = Len(channels)
    /\ \A i \in DOMAIN responses : responses[i] = 201
    /\ \A s \in Socks :
          /\ s.dropped \cap ids(Sent(s)) = {}
          /\ \A t \in Socks :
                s.dropped \cap t.during \subseteq ids(Sent(t))
          /\ NoRepeat(Sent(s))

\* a channel was created while one connection of its workspace was
\* disconnected and another was connected: the request answered 201 and the
\* connected one has handled the event
C3_Witness ==
    \E s, t \in Socks : \E id \in s.dropped :
        /\ id \in ids(t.received)
        /\ id \notin ids(Sent(s))
        /\ responses[id] = 201

\* C4: a connection is in the connection set of at most one workspace.
C4_OneWorkspace ==
    \A s \in Socks : Cardinality({w \in Workspaces : s \in registry(socks, w)}) <= 1

\* a registered connection, a connection unregistered but not reaped yet,
\* and a broadcast made
C4_Witness ==
    \E s, t \in Socks :
        /\ Cardinality({w \in Workspaces : s \in registry(socks, w)}) = 1
        /\ t.srv = "GONE" /\ t.reg = {}
        /\ Len(channels) >= 1

\* C5: delivery is at-most-once with no replay. A client's onChannelEvent
\* is called at most once for an event, and a connection handles no event of
\* a channel created while the server did not hold it open.
C5_AtMostOnce ==
    /\ \A c \in Clients, id \in ChannelIds : delivered[c][id] <= 1
    /\ \A s \in Socks : ids(s.received) \subseteq s.during

\* C6: a connection handles the events of its workspace in the order they
\* were broadcast (channel ids are given in the order of creation).
C6_BroadcastOrder ==
    \A s \in Socks :
        \A i, j \in DOMAIN Sent(s) : i < j => Sent(s)[i].id < Sent(s)[j].id

\* a connection has handled two events
C6_Witness ==
    \E s \in Socks : Len(s.received) = 2

(* ---------------------- properties: the reconnection ------------------- *)

\* the delays of the attempts 0..4
Delays == <<1000, 2000, 4000, 8000, 10000>>

\* onclose has scheduled a reconnect in this step: it alone increments
\* reconnectAttempts
Scheduled(c) == hook'[c].reconnectAttempts = hook[c].reconnectAttempts + 1

\* the delay of the timer reconnectTimeoutRef.current points to is d
RefDelay(h, d) == \E t \in h.timers : t.ref /\ t.delay = d

\* C7, as the specification states it: when a socket closes and n reconnects
\* have been attempted since the last successful open (n sockets have closed
\* since), n = 0..4, the next connect is scheduled after
\* min(1000 * 2^n, 10000) ms.
C7_BackoffSinceOpen ==
    [][\A c \in Clients :
          Scheduled(c) /\ history[c] \in 0..4 =>
              RefDelay(hook'[c], Delays[history[c] + 1])]_vars

\* C7, as the code has it: when a socket closes and reconnectAttempts is n,
\* n = 0..4, the next connect is scheduled after min(1000 * 2^n, 10000) ms,
\* that is 1000, 2000, 4000, 8000, 10000 ms; reconnectAttempts counts the
\* reconnects scheduled since the last successful open or the last cleanup
\* of the effect (change of workspace, unmount), whichever came last.
C7_Backoff ==
    [][\A c \in Clients :
          /\ Scheduled(c) =>
                /\ hook[c].reconnectAttempts \in 0..4
                /\ RefDelay(hook'[c], Delays[hook[c].reconnectAttempts + 1])
          /\ \A t \in hook'[c].timers :
                \E n \in 0..4 : t.delay = Delays[n + 1]]_vars

\* the fifth reconnect in a row is pending, scheduled after 10000 ms
C7_Witness ==
    \E c \in Clients :
        /\ hook[c].reconnectAttempts = 5
        /\ history[c] = 5
        /\ RefDelay(hook[c], 10000)

\* C8, as the specification states it: the counter never exceeds 5; after 5
\* consecutive closes with no successful open in between no further reconnect
\* is scheduled; a successful open resets the counter to 0; at most one
\* reconnect timer is pending.
C8_StopsAfterFiveCloses ==
    [][\A c \in Clients :
          /\ hook'[c].reconnectAttempts <= maxReconnectAttempts
          /\ history[c] >= 5 => ~Scheduled(c)
          /\ \A s \in Socks : s.client = c /\ OnOpen(s, TRUE) =>
                hook'[c].reconnectAttempts = 0
          /\ Cardinality(hook'[c].timers) <= 1]_vars

\* C8, as the code has it: the counter never exceeds 5; once it is 5 no
\* further reconnect is scheduled until a successful open or a cleanup of the
\* effect (change of workspace, unmount) resets it to 0; at most one
\* reconnect timer is pending.
C8_StopsAtFive ==
    [][\A c \in Clients :
          /\ hook'[c].reconnectAttempts \in 0..maxReconnectAttempts
          /\ hook[c].reconnectAttempts = maxReconnectAttempts =>
                /\ ~Scheduled(c)
                /\ hook'[c].timers \subseteq hook[c].timers
                /\ hook'[c].reconnectAttempts \in {0, maxReconnectAttempts}
          /\ \A s \in Socks : s.client = c /\ OnOpen(s, TRUE) =>
                hook'[c].reconnectAttempts = 0
          /\ Cardinality(hook'[c].timers) <= 1]_vars

\* five closes in a row without an open: the counter is 5 and no reconnect
\* is pending
C8_Witness ==
    \E c \in Clients :
        /\ hook[c].reconnectAttempts = maxReconnectAttempts
        /\ history[c] = 5
        /\ hook[c].timers = {}

(* --------------------- properties: the channel list -------------------- *)

\* C9: once the page has handled the CHANNEL_CREATED event of a channel of
\* its current workspace, the channel is in the channels list and stays there
\* whatever fetchChannels does meanwhile, until clearChannels or a change of
\* workspace.
C9_StaysInList ==
    \A id \in handled :
        \E i \in DOMAIN channelState.channels :
            channelState.channels[i].channelId = id

(* ------------------------ properties: the tokens ----------------------- *)

\* C10: after a logout that answered 200, POST /auth/refresh answers 401 to a
\* refresh token issued to that user before the logout, and signs no tokens.
C10_LogoutInvalidates ==
    lastRefresh.status # 0 /\ lastRefresh.afterLogout => lastRefresh.status = 401

(* -------------------------- properties: the pins ----------------------- *)

\* request i is answered in this step
Answered(i) ==
    /\ pinReqs'[i].pc = "done"
    /\ i \in DOMAIN pinReqs => pinReqs[i].pc # "done"

\* requests i and j were in flight at the same time
Overlap(i, j) == i \in pinReqs[j].with \/ j \in pinReqs[i].with

\* the pins of message m, in the workspace of the message
PinsOf(P, m) == {p \in P : p.messageId = m /\ p.workspaceId = messages[m]}

\* C11: POST /messages/:messageId/pin answers 400 when the reason is not a
\* string of 1..500 characters, else 404 when the message does not exist,
\* else 409 when the message has a pin, else 201 and adds exactly one pin row,
\* with pinnedBy the requester; every other answer leaves the pins unchanged.
C11_PinOutcomes ==
    [][\A i \in DOMAIN pinReqs' :
          pinReqs'[i].kind = "pin" /\ Answered(i) =>
              LET r == pinReqs'[i]
                  valid == r.reason \in 1..500
                  exists == r.messageId \in DOMAIN messages
                  pinned == exists /\ PinsOf(pins, r.messageId) # {}
              IN /\ r.status = IF ~valid THEN 400
                               ELSE IF ~exists THEN 404
                               ELSE IF pinned THEN 409 ELSE 201
                 /\ IF r.status = 201
                    THEN \E p \in pins' \ pins :
                            /\ pins' = pins \cup {p}
                            /\ p.messageId = r.messageId
                            /\ p.workspaceId = messages[r.messageId]
                            /\ p.pinnedBy = r.user
                    ELSE pins' = pins]_vars

\* C12: a message is pinned at most once: there is at most one pin row per
\* (messageId, workspaceId), and of the pin requests for one message that
\* were in flight at the same time at most one answers 201.
C12_PinnedOnce ==
    /\ \A p, q \in pins :
          p.messageId = q.messageId /\ p.workspaceId = q.workspaceId => p = q
    /\ \A i, j \in DOMAIN pinReqs :
          /\ i # j /\ Overlap(i, j)
          /\ pinReqs[i].kind = "pin" /\ pinReqs[j].kind = "pin"
          /\ pinReqs[i].messageId = pinReqs[j].messageId
          => ~(pinReqs[i].status = 201 /\ pinReqs[j].status = 201)

\* pin request c follows unpin request b of the same message, with no other
\* request for the message in flight since b started
PinAfterUnpin(b, c) ==
    /\ b < c
    /\ pinReqs[b].kind = "unpin" /\ pinReqs[b].status = 204
    /\ pinReqs[c].kind = "pin" /\ pinReqs[c].status \notin {0, 400}
    /\ pinReqs[c].messageId = pinReqs[b].messageId
    /\ b \notin pinReqs[c].with
    /\ \A k \in DOMAIN pinReqs \ {b, c} :
          pinReqs[k].messageId = pinReqs[b].messageId =>
              k < b /\ k \notin pinReqs[b].with

\* C13: DELETE /messages/:messageId/pin answers 404, the pins unchanged, iff
\* the message does not exist; otherwise it answers 204 and leaves no pin of
\* the message and every pin of the other messages (so it changes nothing
\* when the message has no pin); a pin of the message after an unpin
\* answers 201.
C13_Unpin ==
    [][/\ \A i \in DOMAIN pinReqs' :
             pinReqs'[i].kind = "unpin" /\ Answered(i) =>
                 LET r == pinReqs'[i]
                     exists == r.messageId \in DOMAIN messages
                 IN /\ r.status = 404 <=> ~exists
                    /\ r.status = 404 => pins' = pins
                    /\ r.status # 404 =>
                          /\ r.status = 204
                          /\ PinsOf(pins', r.messageId) = {}
                          /\ pins' = pins \ PinsOf(pins, r.messageId)
       /\ \A b, c \in DOMAIN pinReqs : PinAfterUnpin(b, c) => pinReqs[c].status = 201
      ]_vars

\* a message was pinned, unpinned and pinned again: 201, 204, 201, with one
\* pin row left
C13_Witness ==
    /\ Len(pinReqs) = 3
    /\ pinReqs[1].kind = "pin" /\ pinReqs[1].status = 201
    /\ pinReqs[2].kind = "unpin" /\ pinReqs[2].status = 204
    /\ pinReqs[3].kind = "pin" /\ pinReqs[3].status = 201
    /\ PinAfterUnpin(2, 3)
    /\ pinReqs[1].messageId = pinReqs[2].messageId
    /\ Cardinality(pins) = 1

(* ----------------- properties: register and the workspaces ------------- *)

\* requests i and j to the two routes were in flight at the same time
AccOverlap(i, j) == i \in accReqs[j].with \/ j \in accReqs[i].with

\* C14: emails are unique: a register whose email had a user when it arrived
\* answers 409; in every state there is at most one user row per email, and
\* of the registers with one email that were in flight at the same time at
\* most one answers 201.
C14_UniqueEmail ==
    /\ \A i \in DOMAIN accReqs :
          LET r == accReqs[i]
          IN r.kind = "register" /\ r.pc = "done" /\ r.status # 400 /\ r.hadUser
                 => r.status = 409
    /\ \A u, v \in users : u.email = v.email => u = v
    /\ \A i, j \in DOMAIN accReqs :
          /\ i # j /\ AccOverlap(i, j)
          /\ accReqs[i].kind = "register" /\ accReqs[j].kind = "register"
          /\ accReqs[i].email = accReqs[j].email
          => ~(accReqs[i].status = 201 /\ accReqs[j].status = 201)

\* register request i has answered 201
Registered(i) == accReqs[i].kind = "register" /\ accReqs[i].status = 201

C16_OwnerAndGeneral ==
    \A w \in workspaces :
        /\ \E m \in userWorkspaces : m.workspaceId = w.workspaceId /\ m.role = "OWNER"
        /\ \E c \in workspaceChannels : c.workspaceId = w.workspaceId /\ c.name = "general"

(* ---------------------- properties: the hook's sockets ----------------- *)

\* the sockets of client c in B, as a bag
SocksOf(B, c) == [s \in {x \in BagToSet(B) : x.client = c} |-> B[s]]

\* the hook of client c creates a socket in this step: new WebSocket(...)
Creates(c) == BagCardinality(SocksOf(socks', c)) = BagCardinality(SocksOf(socks, c)) + 1

\* the workspaceId of the connect calls of this step: the one of the render
\* whose effect runs, or the one of the timer that fires
CallWorkspaces(c) ==
    {hook'[c].workspaceId} \cup {t.ws : t \in hook[c].timers \ hook'[c].timers}

\* C17: the hook never creates a WebSocket when workspaceId is missing, 0 or
\* negative, and never creates a second socket while a socket it created and
\* has not closed is OPEN; every socket it creates targets the workspaceId
\* of the connect call that created it.
C17_ConnectGuards ==
    [][\A c \in Clients : Creates(c) =>
          \E n \in wsRef(socks', c) :
              /\ n = NewSock(c, n.ws)
              /\ n.ws > 0
              /\ n.ws \in CallWorkspaces(c)
              /\ \A s \in BagToSet(SocksOf(socks', c)) : s.state # "OPEN"
      ]_vars

====
